---- MODULE Spec2Model ----
(***************************************************************************)
(* Ctrl-C + Esc indicator extension (src/extensions/ctrl-c-esc-indicator.ts)*)
(*                                                                         *)
(* The extension wraps the host editor's handleInput: Ctrl-C shows a       *)
(* status hint on the first press and is a confirm on a second press       *)
(* within CTRL_C_WINDOW_MS; Esc, while the host is busy, is swallowed on   *)
(* the first press (working-message hint) and forwarded on a second press  *)
(* within ESC_ABORT_WINDOW_MS.  Two setTimeout handles auto-clear the      *)
(* hints.  Everything runs on one event loop, so each handler and each     *)
(* timer callback is one atomic action.                                    *)
(*                                                                         *)
(* Time is Date.now() in milliseconds.  A timer callback may run at or     *)
(* after its deadline (the event loop gives no upper bound), never before. *)
(***************************************************************************)
EXTENDS Integers, Sequences, FiniteSets, TLC

\* ---------------------------------------------------------------- constants
CTRL_C_WINDOW_MS == 500

ESC_ABORT_WINDOW_MS == 1200

\* A timer handle that is `undefined` (falsy); a scheduled handle is modelled
\* by its deadline, which is always > 0.
NoTimer == 0

\* ------------------------------------------------------------------- bounds
\* Date.now() when the extension is loaded; any real clock reading is far
\* beyond both windows, so the initial timestamps 0 are "long ago".
StartTime == 1300

\* How long after StartTime the clock is followed.
Horizon == 1300

MaxTime == StartTime + Horizon

\* Clock advances between two events, in ms.
Steps == {100}

VARIABLES
  now,          \* Date.now()
  phase,        \* "loaded" | "running" | "shutdown": session lifecycle
  hasUI,        \* ctx.hasUI, fixed for the session
  idle,         \* ctx.isIdle(): no agent operation in flight
  lastCtrlCAt,  \* CtrlCEscIndicatorEditor.lastCtrlCAt
  lastEscAt,    \* CtrlCEscIndicatorEditor.lastEscAt
  ctrlCTimer,   \* closure variable ctrlCTimer (NoTimer or deadline)
  escTimer,     \* closure variable escTimer  (NoTimer or deadline)
  ctrlCQueue,   \* event loop: deadlines of the scheduled Ctrl-C auto-clear callbacks
  escQueue,     \* event loop: deadlines of the scheduled Esc auto-clear callbacks
  escHintActive,\* closure variable escHintActive
  status,       \* ui status entry CTRL_C_STATUS_KEY: "unset" | "hint"
  working,      \* ui working message: "default" | "hint"
  ctrlCConfirmed, \* history: a confirming Ctrl-C arrived since the hint was last shown
  escConfirmed,   \* history: a confirming Esc arrived since the hint was last shown
  last          \* history: what the step just taken did

vars == <<now, phase, hasUI, idle, lastCtrlCAt, lastEscAt, ctrlCTimer, escTimer,
          ctrlCQueue, escQueue, escHintActive, status, working, ctrlCConfirmed,
          escConfirmed, last>>

\* ------------------------------------------------------- the hint presenter
\* The closure state the four presenter operations read and write, with the
\* callbacks setTimeout has scheduled.  clearTimeout(h) unschedules callback h;
\* a callback is named by its deadline.
Presenter ==
  [ctrlCTimer |-> ctrlCTimer, escTimer |-> escTimer,
   ctrlCQueue |-> ctrlCQueue, escQueue |-> escQueue,
   escHintActive |-> escHintActive, status |-> status, working |-> working]

\* The next state holds presenter state p.
SetPresenter(p) ==
  /\ ctrlCTimer' = p.ctrlCTimer
  /\ escTimer' = p.escTimer
  /\ ctrlCQueue' = p.ctrlCQueue
  /\ escQueue' = p.escQueue
  /\ escHintActive' = p.escHintActive
  /\ status' = p.status
  /\ working' = p.working

\* clearCtrlCHint, with the timer left scheduled.
ClearCtrlCHintKeepTimer(p) ==
  [p EXCEPT !.status = "unset"]

\* clearCtrlCHint (lines 114-120)
ClearCtrlCHint(p) ==
  [p EXCEPT !.ctrlCQueue = @ \ {p.ctrlCTimer}, !.ctrlCTimer = NoTimer,
            !.status = "unset"]

\* clearEscHint (lines 122-130)
ClearEscHint(p) ==
  LET q == [p EXCEPT !.escQueue = @ \ {p.escTimer}, !.escTimer = NoTimer]
  IN IF ~q.escHintActive THEN q
     ELSE [q EXCEPT !.escHintActive = FALSE, !.working = "default"]

\* Variant of showFirstCtrlCHint without the clearCtrlCHint() call.
ShowFirstCtrlCHintNoClear(p, t) ==
  [p EXCEPT !.status = "hint", !.ctrlCTimer = t + CTRL_C_WINDOW_MS,
            !.ctrlCQueue = @ \cup {t + CTRL_C_WINDOW_MS}]

\* showFirstCtrlCHint (lines 132-143), called at time t
ShowFirstCtrlCHint(p, t) ==
  LET q == ClearCtrlCHint(p)
  IN [q EXCEPT !.status = "hint", !.ctrlCTimer = t + CTRL_C_WINDOW_MS,
               !.ctrlCQueue = @ \cup {t + CTRL_C_WINDOW_MS}]

\* showFirstEscHint (lines 145-154), called at time t
ShowFirstEscHint(p, t) ==
  LET q == ClearEscHint(p)
  IN [q EXCEPT !.escHintActive = TRUE, !.working = "hint",
               !.escTimer = t + ESC_ABORT_WINDOW_MS,
               !.escQueue = @ \cup {t + ESC_ABORT_WINDOW_MS}]

\* Variant of shouldArmEscAbort that arms whatever the host reports.
ShouldArmAlways == TRUE

\* shouldArmEscAbort (line 156)
ShouldArmEscAbort == ~idle

CtrlCHintVisible(p) == p.status = "hint"

EscHintVisible(p) == p.working = "hint"

\* ------------------------------------------------------------ the key arbiter
\* One presenter call made by handleInput; "super" is super.handleInput(data),
\* which does not touch the presenter's state.
Apply(p, call, t) ==
  CASE call = "clearCtrlCHint"     -> ClearCtrlCHint(p)
    [] call = "clearEscHint"       -> ClearEscHint(p)
    [] call = "showFirstCtrlCHint" -> ShowFirstCtrlCHint(p, t)
    [] call = "showFirstEscHint"   -> ShowFirstEscHint(p, t)
    [] OTHER                       -> p

\* The presenter state after the first n calls of `calls`.
RECURSIVE After(_, _, _, _)
After(p, calls, n, t) ==
  IF n = 0 THEN p ELSE Apply(After(p, calls, n - 1, t), calls[n], t)

\* Variant of the Ctrl-C branch that shows the hint on every press.
CtrlCCallsAlwaysShow(isSecondPress) ==
  <<"clearEscHint", "showFirstCtrlCHint", "super">>

\* Ctrl-C branch of handleInput (lines 53-67): the calls it makes, in order.
CtrlCCalls(isSecondPress) ==
  <<"clearEscHint">>
    \o (IF isSecondPress THEN <<"clearCtrlCHint">> ELSE <<"showFirstCtrlCHint">>)
    \o <<"super">>

\* Variant of the Esc branch whose armed paths leave the Ctrl-C hint alone.
EscCallsNoCrossClear(showingAutocomplete, arm, isSecondPress) ==
  IF showingAutocomplete THEN <<"clearEscHint", "super">>
  ELSE IF ~arm THEN <<"clearEscHint", "super">>
  ELSE IF isSecondPress THEN <<"clearEscHint", "super">>
  ELSE <<"showFirstEscHint">>

\* Variant of the Esc branch without the autocomplete exception.
EscCallsNoOverlay(showingAutocomplete, arm, isSecondPress) ==
  IF ~arm THEN <<"clearEscHint", "super">>
  ELSE IF isSecondPress THEN <<"clearCtrlCHint", "clearEscHint", "super">>
  ELSE <<"clearCtrlCHint", "showFirstEscHint">>

\* Esc branch of handleInput (lines 69-97)
EscCalls(showingAutocomplete, arm, isSecondPress) ==
  IF showingAutocomplete THEN <<"clearEscHint", "super">>
  ELSE IF ~arm THEN <<"clearEscHint", "super">>
  ELSE IF isSecondPress THEN <<"clearCtrlCHint", "clearEscHint", "super">>
  ELSE <<"clearCtrlCHint", "showFirstEscHint">>

\* Variant of the fall-through that swallows the input.
OtherCallsNoForward == <<"clearCtrlCHint", "clearEscHint">>

\* Any other input (lines 99-101)
OtherCalls == <<"clearCtrlCHint", "clearEscHint", "super">>

\* Variant of the Ctrl-C window test that includes the boundary.
IsSecondCtrlCInclusive(t, lastAt) == t - lastAt <= CTRL_C_WINDOW_MS

\* isSecondPress for Ctrl-C (line 55)
IsSecondCtrlC(t, lastAt) == t - lastAt < CTRL_C_WINDOW_MS

\* Variant of the Esc window test that includes the boundary.
IsSecondEscInclusive(t, lastAt) == t - lastAt <= ESC_ABORT_WINDOW_MS

\* isSecondPress for Esc (line 85)
IsSecondEsc(t, lastAt) == t - lastAt < ESC_ABORT_WINDOW_MS

Count(calls, c) == Cardinality({i \in 1..Len(calls) : calls[i] = c})

Has(calls, c) == Count(calls, c) > 0

\* The record of a step that is not a key event.
Plain(kind) ==
  [kind |-> kind, calls |-> <<>>, second |-> FALSE, busy |-> ~idle, ac |-> FALSE,
   preCtrlC |-> CtrlCHintVisible(Presenter), preEsc |-> EscHintVisible(Presenter),
   preCtrlCPending |-> ctrlCTimer # NoTimer, preEscPending |-> escTimer # NoTimer,
   preCtrlCConfirmed |-> ctrlCConfirmed, preEscConfirmed |-> escConfirmed,
   preCtrlCTimer |-> ctrlCTimer, preLastCtrlCAt |-> lastCtrlCAt,
   preLastEscAt |-> lastEscAt, threw |-> FALSE,
   both |-> FALSE, gap |-> "na"]

\* How long ago the previous press of the same key was, relative to a window.
Gap(t, lastAt, window) ==
  IF t - lastAt < window THEN "within"
  ELSE IF t - lastAt = window THEN "exact" ELSE "beyond"

\* handleInput(data) as a whole: run `calls` on the presenter and record them.
Handle(key, calls, second, ac, gap) ==
  LET p0 == Presenter
      p1 == After(p0, calls, Len(calls), now)
  IN /\ SetPresenter(p1)
     /\ ctrlCConfirmed' =
          IF Has(calls, "showFirstCtrlCHint") THEN FALSE
          ELSE IF key = "ctrl+c" /\ second THEN TRUE ELSE ctrlCConfirmed
     /\ escConfirmed' =
          IF Has(calls, "showFirstEscHint") THEN FALSE
          ELSE IF key = "escape" /\ second THEN TRUE ELSE escConfirmed
     /\ last' = [kind |-> key, calls |-> calls, second |-> second, busy |-> ~idle,
                 ac |-> ac, preCtrlC |-> CtrlCHintVisible(p0),
                 preEsc |-> EscHintVisible(p0),
                 preCtrlCPending |-> p0.ctrlCTimer # NoTimer,
                 preEscPending |-> p0.escTimer # NoTimer,
                 preCtrlCConfirmed |-> ctrlCConfirmed,
                 preEscConfirmed |-> escConfirmed,
                 preCtrlCTimer |-> ctrlCTimer, preLastCtrlCAt |-> lastCtrlCAt,
                 preLastEscAt |-> lastEscAt, threw |-> FALSE,
                 both |-> \E n \in 0..Len(calls) :
                            LET q == After(p0, calls, n, now)
                            IN CtrlCHintVisible(q) /\ EscHintVisible(q),
                 gap |-> gap]

\* The editor is installed and receives input (keys are followed up to MaxTime).
Receiving == phase = "running" /\ hasUI /\ now <= MaxTime

\* handleInput with a Ctrl-C (lines 53-67)
PressCtrlC ==
  /\ Receiving
  /\ LET isSecondPress == IsSecondCtrlC(now, lastCtrlCAt)
     IN Handle("ctrl+c", CtrlCCalls(isSecondPress), isSecondPress, FALSE,
               Gap(now, lastCtrlCAt, CTRL_C_WINDOW_MS))
  /\ lastCtrlCAt' = now
  /\ UNCHANGED <<now, phase, hasUI, idle, lastEscAt>>

\* Variant of the Esc branch that records the press before its early returns.
NextLastEscAtAlways(showingAutocomplete, arm, t, lastAt) == t

\* lastEscAt after an Esc at time t: written on the armed path only (line 86)
NextLastEscAt(showingAutocomplete, arm, t, lastAt) ==
  IF ~showingAutocomplete /\ arm THEN t ELSE lastAt

\* handleInput with an Esc (lines 69-97); the overlay is the base editor's state
PressEsc ==
  /\ Receiving
  /\ \E showingAutocomplete \in BOOLEAN :
       LET armed == ~showingAutocomplete /\ ShouldArmEscAbort
           isSecondPress == armed /\ IsSecondEsc(now, lastEscAt)
       IN /\ Handle("escape",
                    EscCalls(showingAutocomplete, ShouldArmEscAbort,
                             IsSecondEsc(now, lastEscAt)),
                    isSecondPress, showingAutocomplete,
                    Gap(now, lastEscAt, ESC_ABORT_WINDOW_MS))
          /\ lastEscAt' = NextLastEscAt(showingAutocomplete, ShouldArmEscAbort,
                                        now, lastEscAt)
  /\ UNCHANGED <<now, phase, hasUI, idle, lastCtrlCAt>>

\* handleInput with an Esc, no overlay, when ctx.isIdle() throws: line 78 has
\* no try/catch, so the exception leaves handleInput before any call is made.
PressEscIdleThrows ==
  /\ Receiving
  /\ last' = [Plain("escape") EXCEPT !.threw = TRUE,
                 !.gap = Gap(now, lastEscAt, ESC_ABORT_WINDOW_MS)]
  /\ UNCHANGED <<now, phase, hasUI, idle, lastCtrlCAt, lastEscAt, ctrlCTimer,
                 escTimer, ctrlCQueue, escQueue, escHintActive, status, working,
                 ctrlCConfirmed, escConfirmed>>

\* handleInput with any other input (lines 99-101)
PressOther ==
  /\ Receiving
  /\ Handle("other", OtherCalls, FALSE, FALSE, "na")
  /\ UNCHANGED <<now, phase, hasUI, idle, lastCtrlCAt, lastEscAt>>

\* ------------------------------------------------------------ timer callbacks
\* Variant of the Ctrl-C callback that only drops the handle.
CtrlCTimeoutEffectKeepStatus(p) ==
  [p EXCEPT !.ctrlCTimer = NoTimer]

\* The Ctrl-C auto-clear callback (lines 139-142)
CtrlCTimeoutEffect(p) ==
  [p EXCEPT !.status = "unset", !.ctrlCTimer = NoTimer]

\* Variant of the Esc callback that only drops the handle.
EscTimeoutEffectKeepHint(p) ==
  [p EXCEPT !.escTimer = NoTimer]

\* The Esc auto-clear callback (lines 150-153)
EscTimeoutEffect(p) ==
  ClearEscHint([p EXCEPT !.escTimer = NoTimer])

\* The event loop runs a due Ctrl-C callback.
CtrlCTimeout ==
  /\ \E d \in ctrlCQueue :
       /\ now >= d
       /\ SetPresenter(CtrlCTimeoutEffect([Presenter EXCEPT !.ctrlCQueue = @ \ {d}]))
  /\ last' = Plain("ctrlCTimeout")
  /\ UNCHANGED <<now, phase, hasUI, idle, lastCtrlCAt, lastEscAt, ctrlCConfirmed,
                 escConfirmed>>

\* The event loop runs a due Esc callback.
EscTimeout ==
  /\ \E d \in escQueue :
       /\ now >= d
       /\ SetPresenter(EscTimeoutEffect([Presenter EXCEPT !.escQueue = @ \ {d}]))
  /\ last' = Plain("escTimeout")
  /\ UNCHANGED <<now, phase, hasUI, idle, lastCtrlCAt, lastEscAt, ctrlCConfirmed,
                 escConfirmed>>

\* ----------------------------------------------------------- lifecycle events
\* session_start (lines 110-170): installs the editor when a display is attached
SessionStart ==
  /\ phase = "loaded"
  /\ phase' = "running"
  /\ last' = Plain("session_start")
  /\ UNCHANGED <<now, hasUI, idle, lastCtrlCAt, lastEscAt, ctrlCTimer, escTimer,
                 ctrlCQueue, escQueue, escHintActive, status, working,
                 ctrlCConfirmed, escConfirmed>>

\* The host starts an agent operation; the extension has no handler for it.
AgentStart ==
  /\ phase = "running" /\ idle
  /\ idle' = FALSE
  /\ last' = Plain("agent_start")
  /\ UNCHANGED <<now, phase, hasUI, lastCtrlCAt, lastEscAt, ctrlCTimer, escTimer,
                 ctrlCQueue, escQueue, escHintActive, status, working,
                 ctrlCConfirmed, escConfirmed>>

\* Variant of agent_end that restores the working message but leaves the
\* timer scheduled.
AgentEndEffectKeepTimer(p) ==
  IF ~hasUI THEN p
  ELSE IF p.escHintActive
       THEN [p EXCEPT !.escHintActive = FALSE, !.working = "default"]
       ELSE p

\* The state agent_end leaves (lines 172-182)
AgentEndEffect(p) ==
  IF ~hasUI THEN p
  ELSE LET q == [p EXCEPT !.escQueue = @ \ {p.escTimer}, !.escTimer = NoTimer]
       IN IF q.escHintActive
          THEN [q EXCEPT !.escHintActive = FALSE, !.working = "default"]
          ELSE q

\* agent_end: the operation in flight is over
AgentEnd ==
  /\ phase = "running" /\ ~idle
  /\ idle' = TRUE
  /\ SetPresenter(AgentEndEffect(Presenter))
  /\ last' = Plain("agent_end")
  /\ UNCHANGED <<now, phase, hasUI, lastCtrlCAt, lastEscAt, ctrlCConfirmed,
                 escConfirmed>>

\* Variant of session_shutdown that leaves the Esc timer scheduled.
SessionShutdownEffectKeepEscTimer(p) ==
  IF ~hasUI THEN p
  ELSE LET q == [p EXCEPT !.status = "unset",
                          !.ctrlCQueue = @ \ {p.ctrlCTimer}, !.ctrlCTimer = NoTimer]
       IN IF q.escHintActive
          THEN [q EXCEPT !.escHintActive = FALSE, !.working = "default"]
          ELSE q

\* The state session_shutdown leaves (lines 184-201)
SessionShutdownEffect(p) ==
  IF ~hasUI THEN p
  ELSE LET q == [p EXCEPT !.status = "unset",
                          !.ctrlCQueue = @ \ {p.ctrlCTimer}, !.ctrlCTimer = NoTimer,
                          !.escQueue = @ \ {p.escTimer}, !.escTimer = NoTimer]
       IN IF q.escHintActive
          THEN [q EXCEPT !.escHintActive = FALSE, !.working = "default"]
          ELSE q

\* session_shutdown: the editor receives no input afterwards
SessionShutdown ==
  /\ phase = "running"
  /\ phase' = "shutdown"
  /\ SetPresenter(SessionShutdownEffect(Presenter))
  /\ last' = Plain("session_shutdown")
  /\ UNCHANGED <<now, hasUI, idle, lastCtrlCAt, lastEscAt, ctrlCConfirmed,
                 escConfirmed>>

\* The clock moves on between two events.
Tick ==
  /\ \E d \in Steps : now + d <= MaxTime /\ now' = now + d
  /\ last' = Plain("tick")
  /\ UNCHANGED <<phase, hasUI, idle, lastCtrlCAt, lastEscAt, ctrlCTimer, escTimer,
                 ctrlCQueue, escQueue, escHintActive, status, working,
                 ctrlCConfirmed, escConfirmed>>

\* With the clock at the end of the followed span and no further input, time
\* runs on to the deadline of the next scheduled callback.
Drain ==
  /\ \A d \in Steps : now + d > MaxTime
  /\ \E d \in ctrlCQueue \cup escQueue :
       /\ d > now
       /\ \A e \in ctrlCQueue \cup escQueue : e > now => d <= e
       /\ now' = d
  /\ last' = Plain("tick")
  /\ UNCHANGED <<phase, hasUI, idle, lastCtrlCAt, lastEscAt, ctrlCTimer, escTimer,
                 ctrlCQueue, escQueue, escHintActive, status, working,
                 ctrlCConfirmed, escConfirmed>>

\* ------------------------------------------------------------- specification
\* The state after the module's default export ran (lines 105-108) and before
\* session_start; the editor's fields are those of lines 25-26.
Init ==
  /\ now = StartTime
  /\ phase = "loaded"
  /\ hasUI \in BOOLEAN
  /\ idle = TRUE
  /\ lastCtrlCAt = 0
  /\ lastEscAt = 0
  /\ ctrlCTimer = NoTimer
  /\ escTimer = NoTimer
  /\ ctrlCQueue = {}
  /\ escQueue = {}
  /\ escHintActive = FALSE
  /\ status = "unset"
  /\ working = "default"
  /\ ctrlCConfirmed = FALSE
  /\ escConfirmed = FALSE
  /\ last = Plain("init")

Next ==
  \/ PressCtrlC
  \/ PressEsc
  \/ PressOther
  \/ CtrlCTimeout
  \/ EscTimeout
  \/ SessionStart
  \/ AgentStart
  \/ AgentEnd
  \/ SessionShutdown
  \/ Tick

Spec == Init /\ [][Next]_vars

\* The same program with a host whose isIdle() may throw.
NextFault ==
  \/ Next
  \/ PressEscIdleThrows

SpecFault == Init /\ [][NextFault]_vars

\* The same program with the event loop's guarantees: time passes and a due
\* callback is eventually run.
NextLive ==
  \/ Next
  \/ Drain

SpecLive ==
  /\ Init /\ [][NextLive]_vars
  /\ WF_vars(Tick) /\ WF_vars(Drain)
  /\ WF_vars(CtrlCTimeout) /\ WF_vars(EscTimeout)

\* ---------------------------------------------------------------- properties
\* Position of the first occurrence of call c in calls (0 when absent).
First(calls, c) ==
  IF Has(calls, c)
  THEN CHOOSE i \in 1..Len(calls) :
         calls[i] = c /\ \A j \in 1..(i - 1) : calls[j] # c
  ELSE 0

Forwards == Count(last.calls, "super")

\* C1: a cancel-key press while the host is busy and no overlay is shown is
\* suppressed and shows the cancel hint (with a fresh 1200 ms auto-clear)
\* when it is not within 1200 ms of an earlier armed press, in particular
\* when it is the first one; a press within 1200 ms of the previous armed
\* press is forwarded once and leaves the cancel hint cleared.
C1_BusyEscTwoStage ==
  (last.kind = "escape" /\ last.busy /\ ~last.ac) =>
    /\ last.gap # "within" =>
         /\ Forwards = 0
         /\ Has(last.calls, "showFirstEscHint")
         /\ working = "hint" /\ escHintActive
         /\ escTimer = now + ESC_ABORT_WINDOW_MS
    /\ last.gap = "within" =>
         /\ Forwards = 1
         /\ working = "default" /\ ~escHintActive
         /\ escTimer = NoTimer

\* A busy second Esc press that found the hint of the first press still shown.
C1_Witness ==
  /\ last.kind = "escape" /\ last.busy /\ ~last.ac
  /\ last.gap = "within" /\ last.preEsc /\ last.preEscPending
  /\ Forwards = 1 /\ working = "default"

\* C2: while the host is idle every cancel-key press is forwarded once, never
\* shows the cancel hint, and leaves the cancel hint not visible, whatever
\* the time since the previous cancel press.
C2_IdleEscForwarded ==
  (last.kind = "escape" /\ ~last.busy) =>
    /\ Forwards = 1
    /\ ~Has(last.calls, "showFirstEscHint")
    /\ working = "default" /\ ~escHintActive /\ escTimer = NoTimer

\* An idle Esc press within 1200 ms of an earlier armed press, no overlay.
C2_Witness ==
  /\ last.kind = "escape" /\ ~last.busy /\ ~last.ac
  /\ last.gap = "within" /\ Forwards = 1

\* C3: an interrupt press 500 ms or more after the previous interrupt press
\* (exactly 500 ms included) is not a confirming press: showFirstCtrlCHint
\* runs, the hint is visible afterwards and a fresh 500 ms auto-clear is
\* scheduled.
C3_ExpiredWindowRearms ==
  (last.kind = "ctrl+c" /\ last.gap \in {"exact", "beyond"}) =>
    /\ ~last.second
    /\ Has(last.calls, "showFirstCtrlCHint")
    /\ ~Has(last.calls, "clearCtrlCHint")
    /\ status = "hint"
    /\ ctrlCTimer = now + CTRL_C_WINDOW_MS
    /\ ~ctrlCConfirmed

\* An interrupt press exactly 500 ms after the previous one.
C3_Witness ==
  /\ last.kind = "ctrl+c" /\ last.gap = "exact"
  /\ status = "hint" /\ lastCtrlCAt > CTRL_C_WINDOW_MS

\* C4: of two interrupt presses within 500 ms, the fresh first one shows the
\* hint and is no confirm; the second one clears the hint at once, does not
\* show it again, cancels its auto-clear and is the one classified as a
\* confirm; each of the two is forwarded exactly once.
C4_TwoPressesOneCycle ==
  (last.kind = "ctrl+c") =>
    /\ Forwards = 1
    /\ last.gap = "within" =>
         /\ last.second
         /\ ~Has(last.calls, "showFirstCtrlCHint")
         /\ Count(last.calls, "clearCtrlCHint") = 1
         /\ status = "unset" /\ ctrlCTimer = NoTimer
         /\ ctrlCConfirmed
    /\ last.gap # "within" =>
         /\ ~last.second
         /\ Count(last.calls, "showFirstCtrlCHint") = 1
         /\ status = "hint"

\* The second of two interrupt presses, with the first one's hint still shown.
C4_Witness ==
  /\ last.kind = "ctrl+c" /\ last.gap = "within"
  /\ last.preCtrlC /\ last.preCtrlCPending
  /\ status = "unset" /\ Forwards = 1

\* C5: an interrupt press while the cancel hint is visible clears the cancel
\* hint before any interrupt hint action, and a cancel press while the
\* interrupt hint is visible clears the interrupt hint, on the busy, the
\* idle and the autocomplete path alike.
C5_CrossKeyClears ==
  /\ (last.kind = "ctrl+c" /\ last.preEsc) =>
       /\ working = "default"
       /\ First(last.calls, "clearEscHint") = 1
  /\ (last.kind = "escape" /\ last.preCtrlC) => status = "unset"

\* C6: the interrupt status hint and the cancel working-message hint are
\* never both visible, neither between events nor after any of the calls
\* made inside one handleInput.
C6_NeverBothHints ==
  /\ ~(status = "hint" /\ working = "hint")
  /\ ~last.both

\* A busy first Esc press made while the interrupt hint was visible.
C6_Witness ==
  /\ last.kind = "escape" /\ last.preCtrlC
  /\ working = "hint" /\ status = "unset"

\* C7 as stated: a pending auto-clear goes away only by its callback firing
\* or by a confirming press of its key (it fires if and only if no
\* confirming press arrived).
C7_FiresIffNoConfirm ==
  /\ (last.preCtrlCPending /\ ctrlCTimer = NoTimer) =>
       (last.kind = "ctrlCTimeout" \/ (last.kind = "ctrl+c" /\ last.second))
  /\ (last.preEscPending /\ escTimer = NoTimer) =>
       (last.kind = "escTimeout" \/ (last.kind = "escape" /\ last.second))

\* C7 amended: an auto-clear callback fires only if no confirming press
\* arrived since its hint was shown, and a confirming press cancels the
\* pending auto-clear, which stays unscheduled until the hint is shown again.
C7_FiresOnlyIfNoConfirm ==
  /\ last.kind = "ctrlCTimeout" => ~ctrlCConfirmed
  /\ last.kind = "escTimeout" => ~escConfirmed
  /\ (last.kind = "ctrl+c" /\ last.second) => ctrlCTimer = NoTimer
  /\ (last.kind = "escape" /\ last.second) => escTimer = NoTimer
  /\ ctrlCConfirmed => (ctrlCTimer = NoTimer /\ ctrlCQueue = {})
  /\ escConfirmed => (escTimer = NoTimer /\ escQueue = {})

\* A confirming interrupt press that found the auto-clear pending.
C7_Witness ==
  /\ last.kind = "ctrl+c" /\ last.second /\ last.preCtrlCPending
  /\ ctrlCTimer = NoTimer

\* C8: with an autocomplete overlay shown, a cancel press is forwarded once,
\* busy or idle and whatever the time since the previous cancel press; it
\* never shows the cancel hint, and clearEscHint runs before the forward.
C8_OverlayEscForwarded ==
  (last.kind = "escape" /\ last.ac) =>
    /\ Forwards = 1
    /\ ~Has(last.calls, "showFirstEscHint")
    /\ First(last.calls, "clearEscHint") > 0
    /\ First(last.calls, "clearEscHint") < First(last.calls, "super")
    /\ working = "default" /\ ~escHintActive /\ escTimer = NoTimer

\* An Esc press with the overlay shown, while busy with the cancel hint up.
C8_Witness ==
  /\ last.kind = "escape" /\ last.ac /\ last.busy
  /\ last.preEsc /\ last.gap = "within" /\ Forwards = 1

\* C9: agent_end with a cancel hint active restores the default working
\* message, unsets the flag and cancels the pending cancel auto-clear, so
\* the callback scheduled for that hint cannot fire afterwards.
C9_AgentEndClearsEscHint ==
  (last.kind = "agent_end" /\ hasUI) =>
    /\ working = "default"
    /\ ~escHintActive
    /\ escTimer = NoTimer
    /\ escQueue = {}

\* agent_end arriving while the cancel hint is shown and its timer pending.
C9_Witness ==
  /\ last.kind = "agent_end" /\ hasUI
  /\ last.preEsc /\ last.preEscPending /\ working = "default"

\* C10: after session_shutdown with a display attached both hint surfaces
\* are cleared, no timer is pending, the flag is unset, and no auto-clear
\* callback runs later.
C10_ShutdownClearsAll ==
  (phase = "shutdown" /\ hasUI) =>
    /\ ctrlCTimer = NoTimer /\ escTimer = NoTimer
    /\ ctrlCQueue = {} /\ escQueue = {}
    /\ ~escHintActive
    /\ status = "unset" /\ working = "default"
    /\ last.kind \notin {"ctrlCTimeout", "escTimeout"}

\* session_shutdown arriving while the cancel hint's timer is pending.
C10_Witness ==
  /\ phase = "shutdown" /\ hasUI /\ last.kind = "session_shutdown"
  /\ last.preEscPending /\ last.preEsc

IsKey == last.kind \in {"ctrl+c", "escape", "other"}

\* C11: clearCtrlCHint and clearEscHint change nothing (timers, scheduled
\* callbacks, flag, status entry, working message) when their hint is not
\* active, and running either twice leaves what running it once leaves.
C11_ClearsIdempotent ==
  /\ status = "unset" => ClearCtrlCHint(Presenter) = Presenter
  /\ ~escHintActive => ClearEscHint(Presenter) = Presenter
  /\ ClearCtrlCHint(ClearCtrlCHint(Presenter)) = ClearCtrlCHint(Presenter)
  /\ ClearEscHint(ClearEscHint(Presenter)) = ClearEscHint(Presenter)
  /\ (IsKey /\ ~last.threw /\ ~last.preCtrlC /\ ~last.preEsc
        /\ ~Has(last.calls, "showFirstCtrlCHint")
        /\ ~Has(last.calls, "showFirstEscHint")) =>
       /\ status = "unset" /\ working = "default" /\ ~escHintActive
       /\ ctrlCTimer = NoTimer /\ escTimer = NoTimer

\* Both clears called by a key press while neither hint is active, after the
\* cancel hint had been shown and cleared earlier.
C11_Witness ==
  /\ last.kind = "other" /\ ~last.preCtrlC /\ ~last.preEsc
  /\ Has(last.calls, "clearCtrlCHint") /\ Has(last.calls, "clearEscHint")
  /\ last.preLastEscAt > 0 /\ last.preLastCtrlCAt > 0

\* C12: when the host-busy query throws during a cancel press, the press is
\* handled as an idle one: forwarded once to the base handler, the hint not
\* shown, handleInput not failing.
C12_IdleQueryFailureFailsOpen ==
  (last.kind = "escape" /\ last.threw) =>
    /\ Forwards = 1
    /\ ~Has(last.calls, "showFirstEscHint")

\* C13: each hint has at most one scheduled auto-clear callback, the one its
\* handle names; showing a hint again replaces the pending callback.
C13_OneTimerPerHint ==
  /\ Cardinality(ctrlCQueue) <= 1
  /\ Cardinality(escQueue) <= 1
  /\ ctrlCQueue \subseteq {ctrlCTimer}
  /\ escQueue \subseteq {escTimer}

\* The interrupt hint shown again while its earlier auto-clear was pending.
C13_Witness ==
  /\ last.kind = "ctrl+c" /\ Has(last.calls, "showFirstCtrlCHint")
  /\ last.preCtrlCPending
  /\ ctrlCQueue = {now + CTRL_C_WINDOW_MS}

\* C14: after a confirming second cancel press the next busy cancel press
\* (no overlay) is a fresh first press: suppressed, hint shown.
C14_AfterConfirmFresh ==
  (last.kind = "escape" /\ last.busy /\ ~last.ac /\ last.preEscConfirmed) =>
    /\ Forwards = 0
    /\ Has(last.calls, "showFirstEscHint")
    /\ working = "hint"

\* C15: an interrupt press made while the interrupt hint is not visible and
\* no confirm has been given since it was last shown (another key cleared
\* it) is a fresh first press that shows the hint again.
C15_ClearedHintFresh ==
  (last.kind = "ctrl+c" /\ ~last.preCtrlC /\ ~last.preCtrlCConfirmed) =>
    /\ ~last.second
    /\ Has(last.calls, "showFirstCtrlCHint")
    /\ status = "hint"

\* C16: every hint that is shown is eventually cleared; the auto-clear
\* callback leaves the hint not visible, the flag unset, the handle empty
\* and the working message back to default.
C16_HintsEventuallyCleared ==
  /\ (status = "hint") ~> (status = "unset" /\ ctrlCTimer = NoTimer)
  /\ (working = "hint") ~>
       (working = "default" /\ ~escHintActive /\ escTimer = NoTimer)
  /\ [](last.kind = "ctrlCTimeout" =>
          (status = "unset" /\ ctrlCTimer = NoTimer /\ now >= last.preCtrlCTimer))
  /\ [](last.kind = "escTimeout" =>
          (working = "default" /\ ~escHintActive /\ escTimer = NoTimer
             /\ now >= lastEscAt + ESC_ABORT_WINDOW_MS))

\* The cancel auto-clear callback running on a shown hint.
C16_Witness ==
  /\ last.kind = "escTimeout" /\ last.preEsc /\ last.preEscPending
  /\ working = "default" /\ escQueue = {}

\* C17: a busy cancel press with no overlay is forwarded only if the cancel
\* hint is visible at the moment of the press.
C17_ForwardOnlyWithHint ==
  (last.kind = "escape" /\ last.busy /\ ~last.ac /\ ~last.threw /\ Forwards > 0) =>
    last.preEsc

\* C18: handleInput forwards each input once, except a cancel press while
\* busy, without overlay and not within 1200 ms of the previous armed cancel
\* press, which it forwards zero times.
C18_ForwardedOnceExceptFirstEsc ==
  IsKey =>
    Forwards = IF last.kind = "escape" /\ last.busy /\ ~last.ac
                    /\ last.gap # "within"
               THEN 0 ELSE 1

\* A suppressed cancel press exactly 1200 ms after the previous armed one.
C18_Witness ==
  /\ last.kind = "escape" /\ last.busy /\ ~last.ac /\ last.gap = "exact"
  /\ Forwards = 0

\* C19: between handlers each hint is visible exactly when its auto-clear
\* is pending: escHintActive iff escTimer is scheduled, the status entry is
\* set iff ctrlCTimer is scheduled, and the handle names the only callback.
C19_VisibleIffPending ==
  /\ escHintActive <=> escTimer # NoTimer
  /\ escHintActive <=> working = "hint"
  /\ status = "hint" <=> ctrlCTimer # NoTimer
  /\ escTimer # NoTimer <=> escQueue # {}
  /\ ctrlCTimer # NoTimer <=> ctrlCQueue # {}

\* The interrupt auto-clear callback having run on a visible hint.
C19_Witness ==
  /\ last.kind = "ctrlCTimeout" /\ last.preCtrlC /\ last.preCtrlCPending
  /\ status = "unset" /\ ctrlCTimer = NoTimer

\* C20: agent_end leaves the interrupt hint, the interrupt timer and both
\* press timestamps as they were; a cancel press on the idle or the
\* autocomplete path leaves both press timestamps as they were.
C20_FrameOfAgentEndAndIdleEsc ==
  /\ last.kind = "agent_end" =>
       /\ CtrlCHintVisible(Presenter) = last.preCtrlC
       /\ ctrlCTimer = last.preCtrlCTimer
       /\ lastCtrlCAt = last.preLastCtrlCAt
       /\ lastEscAt = last.preLastEscAt
  /\ (last.kind = "escape" /\ (~last.busy \/ last.ac)) =>
       /\ lastCtrlCAt = last.preLastCtrlCAt
       /\ lastEscAt = last.preLastEscAt

\* agent_end arriving while the interrupt hint is shown, after both keys
\* were pressed.
C20_Witness ==
  /\ last.kind = "agent_end" /\ hasUI /\ last.preCtrlC
  /\ status = "hint" /\ ctrlCTimer # NoTimer
  /\ lastEscAt > 0 /\ lastCtrlCAt > 0

====
